---- MODULE Spec2Model ----
(***************************************************************************)
(* Hour-allocation engine of planta-automation: the distribution           *)
(* strategies (strategies.py), the exact-sum enforcer, the merge and       *)
(* post-randomization step (apply_fill_values) and the day allocator       *)
(* (fill_day) of calculations.py.                                          *)
(*                                                                         *)
(* Arithmetic.  Hours are decimal numbers; every quantity is held as an    *)
(* integer number of ticks, Cent ticks being 0.01 h, Cent chosen so that   *)
(* a division by any slot count of the model is exact.  round(x, p) is     *)
(* Python's round-half-even to p decimals.  Where the code compares float  *)
(* sums for equality, a sum of two or more non-zero values that are not    *)
(* all binary fractions may carry a representation error: the comparison   *)
(* of equal decimal sums then has both results (FloatSumsEqual).  The      *)
(* random draws are sampled on a grid; the slot a random index selects is  *)
(* any slot.  A call yields the set of its possible outcomes.              *)
(***************************************************************************)
EXTENDS Integers, Sequences, FiniteSets, TLC

VARIABLES pc, op, override_mode, strategy, exclude_values, total_hours,
          current_values, retries, precision, reference_day,
          post_randomization, slots, slots_type, fill_values, input_values,
          draws, current_sum, ret,
          browser, run, exclude_indices, weekdays,
          files, filepath, weekday_index, num_slots

vars == <<pc, op, override_mode, strategy, exclude_values, total_hours,
          current_values, retries, precision, reference_day,
          post_randomization, slots, slots_type, fill_values, input_values,
          draws, current_sum, ret,
          browser, run, exclude_indices, weekdays,
          files, filepath, weekday_index, num_slots>>

(***************************************************************************)
(* Bounds of the model                                                     *)
(***************************************************************************)
MaxLen == 2        \* longest current_values of the enumerated fill_day calls
MaxSlots == 5      \* largest slot count handed to a strategy directly
MaxCents == 3      \* the totals 0.00 .. MaxCents / 100 are all enumerated
DrawGrid == 1      \* random.uniform(0, t) is sampled at k * t / DrawGrid, k in 0..DrawGrid
MaxRetries == 2    \* largest retries handed to distribute_random
UGrid == 1         \* random.uniform(-v, v) is sampled at 0 and +-(4j-1) * v / (4 * UGrid)
MaxRows == 2       \* hour fields (rows) of a day of the timesheet page
MaxFileRows == 2   \* most data rows of a reference file

(***************************************************************************)
(* Fixed-point arithmetic                                                  *)
(***************************************************************************)
Abs(x) == IF x < 0 THEN -x ELSE x
Max(a, b) == IF a >= b THEN a ELSE b
Min(a, b) == IF a <= b THEN a ELSE b

RECURSIVE GCD(_, _)
GCD(a, b) == IF b = 0 THEN a ELSE GCD(b, a % b)

RECURSIVE LCMUpTo(_)
LCMUpTo(n) == IF n <= 1 THEN 1
              ELSE LET m == LCMUpTo(n - 1) IN (m * n) \div GCD(m, n)

Cent == LCMUpTo(Max(MaxLen, MaxSlots))
Hour == 100 * Cent
Blank == -Hour                       \* the sentinel -1 of an empty cell

RECURSIVE Pow10(_)
Pow10(k) == IF k <= 0 THEN 1 ELSE 10 * Pow10(k - 1)

\* one unit at the given precision, 10 ** -p hours, in ticks (p in 0..2)
Unit(p) == Cent * Pow10(2 - p)

\* n / d rounded to the nearest integer, ties to even (d > 0)
RoundHalfEven(n, d) ==
    LET f == n \div d
        r == n - f * d
    IN IF 2 * r < d THEN f
       ELSE IF 2 * r > d THEN f + 1
       ELSE IF f % 2 = 0 THEN f ELSE f + 1

\* round(a / b, p) for the rational a / b of ticks
RoundQ(a, b, p) == Unit(p) * RoundHalfEven(a, b * Unit(p))

\* round(x, p)
Round(x, p) == RoundQ(x, 1, p)

RECURSIVE SeqSum(_)
SeqSum(s) == IF s = <<>> THEN 0 ELSE s[1] + SeqSum(Tail(s))

\* the largest odd divisor of n
RECURSIVE OddPart(_)
OddPart(n) == IF n % 2 = 0 THEN OddPart(n \div 2) ELSE n

\* a number of hours that is a binary fraction: a float holds it exactly
Dyadic(x) == x % OddPart(Hour) = 0

\* a float sum of these values can carry a representation error: two
\* summands at least, one of them no binary fraction
SumInexact(values) ==
    /\ Cardinality({ i \in DOMAIN values : values[i] # 0 }) >= 2
    /\ \E i \in DOMAIN values : ~Dyadic(values[i])

\* the results the float comparison sum(a) == sum(b) can have: sums that
\* differ compare unequal, equal sums compare equal unless a
\* representation error makes them differ in the last bit
FloatSumsEqual(a, b) ==
    IF SeqSum(a) # SeqSum(b) THEN {FALSE}
    ELSE IF SumInexact(a) \/ SumInexact(b) THEN {TRUE, FALSE}
    ELSE {TRUE}

(***************************************************************************)
(* Outcomes of a call: a returned list or a raised exception               *)
(***************************************************************************)
\* fallback tells that fill_day took the except branch of copy_reference
None == [status |-> "None", value |-> <<>>, at |-> "", rv |-> <<>>, fallback |-> FALSE]
Ok(v) == [status |-> "ok", value |-> v, at |-> "", rv |-> <<>>, fallback |-> FALSE]
Raise(kind, where) ==
    [status |-> kind, value |-> <<>>, at |-> where, rv |-> <<>>, fallback |-> FALSE]

(***************************************************************************)
(* strategies.py                                                           *)
(***************************************************************************)
DefaultPrecision == 2

\* validate_hours_and_slots for a slots argument that is an int: raises,
\* returns the one-slot list, or None
validate_hours_and_slots_ZeroSlots(total, n, p) ==
    IF n < 0 THEN Raise("ValueError", "slots must be a positive integer")
    ELSE IF total < 0 THEN Raise("ValueError", "total_hours must be non-negative")
    ELSE IF n = 0 THEN Ok(<<>>)
    ELSE IF n = 1 THEN Ok(<<Round(total, p)>>)
    ELSE None

validate_hours_and_slots(total, n, p) ==
    IF n <= 0 THEN Raise("ValueError", "slots must be a positive integer")
    ELSE IF total < 0 THEN Raise("ValueError", "total_hours must be non-negative")
    ELSE IF n = 1 THEN Ok(<<Round(total, p)>>)
    ELSE None

\* the types of a slots argument: an int n, the float n.0, the float n.5
SlotsTypes == {"int", "float", "float_half"}

\* line 33: slots <= 0
SlotsNotPositive(n, type) == n < 0 \/ (n = 0 /\ type # "float_half")

\* lines 33-38 for a slots argument that is a float: it never passes
ValidateFloat(total, n, type) ==
    IF SlotsNotPositive(n, type) THEN Raise("ValueError", "slots must be a positive integer")
    ELSE IF total < 0 THEN Raise("ValueError", "total_hours must be non-negative")
    ELSE Raise("TypeError", "slots must be int")

\* validate_hours_and_slots for a slots argument of either type
Validate(total, n, type, p) ==
    IF type = "int" THEN validate_hours_and_slots(total, n, p)
    ELSE ValidateFloat(total, n, type)

\* a strategy called with a slots argument of either type: a float stops in
\* the validation (lines 78, 96, 124)
Typed(total, n, type, outcomes) ==
    IF type = "int" THEN outcomes ELSE {ValidateFloat(total, n, type)}

\* line 123: len(reference_day) == slots comes before the validation
CopyTyped(total, n, type, reference, outcomes) ==
    IF type # "int" /\ (type = "float_half" \/ Len(reference) # n)
    THEN {Raise("AssertionError", "reference day is not of same length as number of slots")}
    ELSE Typed(total, n, type, outcomes)

\* enforce_exact_sum from the point where the values are rounded (line 50):
\* the residual goes to one slot, random.randint picks the slot; a diff that
\* is representation error only leaves the values as they are and fails
\* the assertion
EnforceRounded(total, values, p) ==
    LET diff == total - SeqSum(values)
        failed == Raise("AssertionError", "total_hours should match the sum of values")
    IN UNION { IF equal THEN {Ok(values)}
               ELSE IF diff = 0 THEN {failed}
               ELSE UNION { LET adjusted == [values EXCEPT
                                               ![index] = Round(values[index] + diff, p)]
                            IN { IF sums THEN Ok(adjusted) ELSE failed
                                 : sums \in FloatSumsEqual(adjusted, <<total>>) }
                            : index \in DOMAIN values }
               : equal \in FloatSumsEqual(values, <<total>>) }

enforce_exact_sum(total, values, p) ==
    IF values = <<>> THEN {Ok(values)}
    ELSE EnforceRounded(total, [i \in DOMAIN values |-> Round(values[i], p)], p)

\* distribute_equal with the division by the slot count forgotten
distribute_equal_NoDivision(total, n, p) ==
    LET result == validate_hours_and_slots(total, n, p)
    IN IF result # None THEN {result}
       ELSE EnforceRounded(total, [i \in 1..n |-> Round(total, p)], p)

\* distribute_equal: base = total / n in every slot
distribute_equal(total, n, p) ==
    LET result == validate_hours_and_slots(total, n, p)
    IN IF result # None THEN {result}
       ELSE EnforceRounded(total, [i \in 1..n |-> RoundQ(total, n, p)], p)

\* the values one round(random.uniform(0, total), precision) can take
UniformDraws(total, p) == { RoundQ(k * total, DrawGrid, p) : k \in 0..DrawGrid }

\* lines 104-105: the drawn values scaled to the total and handed to
\* enforce_exact_sum
ScaledDraw(total, n, p, drawn) ==
    EnforceRounded(total,
        [i \in 1..n |-> RoundQ(drawn[i] * total, SeqSum(drawn), p)], p)

\* line 106: the retries are used up
RetriesExhausted == Raise("ValueError", "random values were all zero")

\* the retry loop of distribute_random with `left` attempts to go
RECURSIVE RandomAttempts(_, _, _, _)
RandomAttempts(total, n, p, left) ==
    IF left <= 0
    THEN {RetriesExhausted}
    ELSE UNION { IF SeqSum(drawn) > 0
                 THEN ScaledDraw(total, n, p, drawn)
                 ELSE RandomAttempts(total, n, p, left - 1)
                 : drawn \in [1..n -> UniformDraws(total, p)] }

distribute_random(total, n, p, tries) ==
    LET result == validate_hours_and_slots(total, n, p)
    IN IF result # None THEN {result}
       ELSE RandomAttempts(total, n, p, tries)

\* copy_reference_day: shares proportional to the reference weights
copy_reference_day(total, n, reference, p) ==
    IF Len(reference) # n
    THEN {Raise("AssertionError", "reference day is not of same length as number of slots")}
    ELSE LET result == validate_hours_and_slots(total, n, DefaultPrecision)
         IN IF result # None THEN {result}
            ELSE IF SeqSum(reference) = 0
            THEN {Raise("ZeroDivisionError", "sum(reference_day)")}
            ELSE EnforceRounded(total,
                     [i \in 1..n |-> RoundQ(total * reference[i], SeqSum(reference), p)], p)

\* the strategies dict with a key that fill_day has no branch for
StrategyNames_WithOther == {"random", "equal", "copy_reference", "other"}

\* line 130: the keys of the strategies dict
StrategyNames == {"random", "equal", "copy_reference"}
StrategyOps == {"distribute_equal", "distribute_random", "copy_reference_day"}

(***************************************************************************)
(* calculations.py: apply_fill_values                                      *)
(***************************************************************************)
\* numerators k of the sampled draws k * v / (4 * UGrid) of random.uniform(-v, v)
USamples == {0} \cup { 4 * j - 1 : j \in 1..UGrid } \cup { 1 - 4 * j : j \in 1..UGrid }

\* line 23: value + round(post_randomization * random.uniform(-value, value), 2);
\* factor is post_randomization in percent, k[i] the draw for slot i
PerturbedValues(fill, factor, k) ==
    [i \in DOMAIN fill |->
        fill[i] + Cent * RoundHalfEven(factor * k[i] * fill[i], 100 * 4 * UGrid * Cent)]

\* line 26: abs(diff) // len(random_values) >= 1 / (10 ** precision)
CoarseNeeded(diff, n, p) == (Abs(diff) \div (n * Hour)) * Hour >= Unit(p)

\* lines 25-27: spread the drift evenly over all values
CoarseCorrection(random_values, fill, p) ==
    LET diff == SeqSum(fill) - SeqSum(random_values)
        n == Len(random_values)
    IN IF CoarseNeeded(diff, n, p)
       THEN [i \in DOMAIN random_values |-> random_values[i] + diff \div n]
       ELSE random_values

\* line 29: the slots that may absorb the remaining drift
IndicesPositive(random_values, diff) ==
    { i \in DOMAIN random_values : random_values[i] + diff > 0 }

\* lines 28-32: add the remaining drift to one eligible slot, if there is one
FineCorrection(random_values, fill) ==
    LET diff == SeqSum(fill) - SeqSum(random_values)
        indices_positive == IndicesPositive(random_values, diff)
    IN IF indices_positive = {}
       THEN {random_values}
       ELSE { [random_values EXCEPT ![random_index] = @ + diff]
              : random_index \in indices_positive }

\* lines 14-34: the outcomes of the post-randomization step; rv of a
\* successful outcome is the perturbed list that replaces fill_values
PostRandomization(fill, factor, p) ==
    IF factor >= 100
    THEN {Raise("AssertionError", "randomization parameter has to be lower than 1")}
    ELSE IF fill = <<>>
    THEN {Raise("ZeroDivisionError", "abs(diff) // len(random_values)")}
    ELSE UNION { UNION { { IF sums
                           THEN [Ok(<<>>) EXCEPT !.rv = final]
                           ELSE [Raise("AssertionError", "Post randomization failed")
                                    EXCEPT !.rv = final]
                           : sums \in FloatSumsEqual(final, fill) }
                         : final \in FineCorrection(
                               CoarseCorrection(PerturbedValues(fill, factor, k), fill, p),
                               fill) }
                 : k \in [DOMAIN fill -> USamples] }

\* lines 37-40: the positions the merge loop fills, left to right
RECURSIVE FillPositions(_, _, _)
FillPositions(res, ex, i) ==
    IF i > Min(Len(res), Len(ex)) THEN <<>>
    ELSE IF ex[i] # 1 /\ res[i] = Blank
         THEN <<i>> \o FillPositions(res, ex, i + 1)
         ELSE FillPositions(res, ex, i + 1)

\* position of i in the sequence of fill positions
RECURSIVE IndexOf(_, _)
IndexOf(positions, i) == IF positions[1] = i THEN 1 ELSE 1 + IndexOf(Tail(positions), i)

InSeq(positions, i) == \E j \in DOMAIN positions : positions[j] = i

\* line 45: res[i] = max(fill_values[fill_idx], 0)
Scatter_Reversed(res, positions, fill) ==
    [i \in DOMAIN res |->
        IF InSeq(positions, i)
        THEN Max(fill[Len(positions) + 1 - IndexOf(positions, i)], 0) ELSE res[i]]

Scatter(res, positions, fill) ==
    [i \in DOMAIN res |->
        IF InSeq(positions, i) THEN Max(fill[IndexOf(positions, i)], 0) ELSE res[i]]

\* line 48: res = [max(0.0, v) for v in res]
FinalClamp(res) == [i \in DOMAIN res |-> Max(0, res[i])]

\* lines 36-49: merge the fill values into the blank, non-excluded positions
MergeFill(current, ex, fill, n) ==
    LET positions == FillPositions(current, ex, 1)
    IN IF Len(positions) > Len(fill)
       THEN Raise("ValueError", "Not enough fill_values")
       ELSE IF Len(positions) # n
       THEN Raise("AssertionError", "Expected to fill")
       ELSE Ok(FinalClamp(Scatter(current, positions, fill)))

apply_fill_values(current, ex, fill, n, factor, p) ==
    IF factor # 0
    THEN { IF r.status # "ok" THEN r
           ELSE [MergeFill(current, ex, r.rv, n) EXCEPT !.rv = r.rv]
           : r \in PostRandomization(fill, factor, p) }
    ELSE { [MergeFill(current, ex, fill, n) EXCEPT !.rv = fill] }

(***************************************************************************)
(* calculations.py: fill_day                                               *)
(***************************************************************************)
\* lines 126-127: an empty mask excludes nothing
DefaultMask(ex, current) ==
    IF ex = <<>> THEN [i \in DOMAIN current |-> 0] ELSE ex

\* OverrideValues blanking the cells whatever the mode
OverrideValues_Always(override, current) == [i \in DOMAIN current |-> Blank]

\* OverrideValues leaving the cells as they are whatever the mode
OverrideValues_Ignored(override, current) == current

\* lines 131-132: override mode blanks every cell
OverrideValues(override, current) ==
    IF override THEN [i \in DOMAIN current |-> Blank] ELSE current

\* line 134: cells that are blank and not excluded
SlotsToFill(current, ex) ==
    Cardinality({ i \in 1..Min(Len(current), Len(ex)) : current[i] = Blank /\ ex[i] = 0 })

\* lines 137-138: what is left of the day after the entered values
HoursToDistribute(total, current, p) ==
    LET entered == [i \in DOMAIN current |-> IF current[i] # Blank THEN current[i] ELSE 0]
    IN Round(Max(0, total - SeqSum(entered)), p)

\* FilteredReference taking the first entries of the reference, whatever the
\* positions of the cells to fill
FilteredReference_Misaligned(reference, ex, current, i) ==
    [j \in 1..Min(Len(reference), SlotsToFill(current, ex)) |-> Max(reference[j], 0)]

\* lines 152-153: the reference entries of the cells to fill, negatives as 0
RECURSIVE FilteredReference(_, _, _, _)
FilteredReference(reference, ex, current, i) ==
    IF i > Min(Len(reference), Min(Len(ex), Len(current))) THEN <<>>
    ELSE IF ex[i] = 0 /\ current[i] = Blank
         THEN <<Max(reference[i], 0)>> \o FilteredReference(reference, ex, current, i + 1)
         ELSE FilteredReference(reference, ex, current, i + 1)

\* an entry of reference_day that is no number (a string, None)
NonNumeric == Blank - 1

\* line 152: `v >= 0` raises TypeError on an entry that is no number
HasNonNumeric(reference) == \E i \in DOMAIN reference : reference[i] = NonNumeric

\* StrategyFill with the try/except of copy_reference left out
StrategyFill_NoFallback(name, hours, n, p, tries, reference, ex, current) ==
    IF name = "equal" THEN distribute_equal(hours, n, p)
    ELSE IF name = "random" THEN distribute_random(hours, n, p, tries)
    ELSE IF HasNonNumeric(reference) THEN {Raise("TypeError", "reference_day")}
    ELSE copy_reference_day(hours, n, FilteredReference(reference, ex, current, 1), p)

\* line 156: the equal strategy called in the except branch
EqualFallback(hours, n, p) ==
    { [r EXCEPT !.fallback = TRUE] : r \in distribute_equal(hours, n, p) }

\* lines 145-158: the strategy call, copy_reference falling back to equal
StrategyFill(name, hours, n, p, tries, reference, ex, current) ==
    IF name = "equal" THEN distribute_equal(hours, n, p)
    ELSE IF name = "random" THEN distribute_random(hours, n, p, tries)
    ELSE IF name = "copy_reference"
    THEN IF HasNonNumeric(reference) THEN EqualFallback(hours, n, p)
         ELSE UNION { IF r.status = "ok" THEN {r} ELSE EqualFallback(hours, n, p)
                      : r \in copy_reference_day(hours, n,
                                  FilteredReference(reference, ex, current, 1), p) }
    ELSE {Raise("ValueError", "Strategy unknown")}

\* SumPostcondition with the assertion left out
SumPostcondition_Skipped(r, total) == {r}

\* line 161: assert sum(res) == total_hours
SumPostcondition(r, total) ==
    IF r.status # "ok" THEN {r}
    ELSE { IF sums THEN r
           ELSE [Raise("AssertionError", "calculated values do not add up")
                    EXCEPT !.rv = r.rv, !.fallback = r.fallback]
           : sums \in FloatSumsEqual(r.value, <<total>>) }

fill_day(override, name, ex0, total, current0, tries, p, reference, factor) ==
    LET ex == DefaultMask(ex0, current0)
    IN IF Len(current0) # Len(ex)
       THEN {Raise("AssertionError", "len(current_values) does not match len(exclude_values)")}
       ELSE LET current == OverrideValues(override, current0)
                n == SlotsToFill(current, ex)
                hours_to_distribute == HoursToDistribute(total, current, p)
            IN IF name \notin StrategyNames
               THEN {Raise("KeyError", name)}
               ELSE UNION { IF f.status # "ok" THEN {f}
                            ELSE UNION { SumPostcondition([r EXCEPT !.fallback = f.fallback],
                                                          total)
                                         : r \in apply_fill_values(current, ex, f.value,
                                                                   n, factor, p) }
                            : f \in StrategyFill(name, hours_to_distribute, n, p, tries,
                                                 reference, ex, current) }

(***************************************************************************)
(* The calls: Init draws one call, the action of its operation runs it     *)
(***************************************************************************)
Precisions == {1, 2}
Factors == {0, 90}               \* post_randomization in percent
Totals == { c * Cent : c \in (0..MaxCents) \cup {25, 400} }
Weights == {0, 1, 2}
EntryValues == {Blank, 0, 2 * Cent}
DayTotals == {0, 3 * Cent, 400 * Cent}
FillValues == {0, Cent, 400 * Cent}

SeqsOf(S, n) == [1..n -> S]
SeqsUpTo(S, n) == UNION { SeqsOf(S, m) : m \in 1..n }

Default ==
    [op |-> "", override_mode |-> FALSE, strategy |-> "", exclude_values |-> <<>>,
     total_hours |-> 0, current_values |-> <<>>, retries |-> 0, precision |-> 2,
     reference_day |-> <<>>, post_randomization |-> 0, slots |-> 0,
     slots_type |-> "int", fill_values |-> <<>>, values |-> <<>>]

\* no browser is open during a call of the allocation engine
NoBrowser == [fields |-> <<>>, usable |-> <<>>, written |-> <<>>, before |-> <<>>,
              target |-> <<>>, visible |-> 0, back |-> 0, forward |-> 0]
NoRun == [offsets |-> <<>>, index |-> 1, current_offset |-> 0, hours_data |-> <<>>,
          dates |-> <<>>, new_values |-> <<>>]

\* the arguments of call c, which is about to run
CallState(c) ==
    /\ pc = "call"
    /\ op = c.op
    /\ override_mode = c.override_mode
    /\ strategy = c.strategy
    /\ exclude_values = c.exclude_values
    /\ total_hours = c.total_hours
    /\ current_values = c.current_values
    /\ retries = c.retries
    /\ precision = c.precision
    /\ reference_day = c.reference_day
    /\ post_randomization = c.post_randomization
    /\ slots = c.slots
    /\ slots_type = c.slots_type
    /\ fill_values = c.fill_values
    /\ input_values = c.values
    /\ draws = 0
    /\ current_sum = 0
    /\ ret = None

\* no reference file is read during a call of the allocation engine
NoStore ==
    /\ files = <<>>
    /\ filepath = ""
    /\ weekday_index = 0
    /\ num_slots = 0

\* the state in which call c of the allocation engine is about to run
Called(c) ==
    /\ CallState(c)
    /\ browser = NoBrowser
    /\ run = NoRun
    /\ exclude_indices = {}
    /\ weekdays = {}
    /\ NoStore

EqualCalls ==
    \E t \in Totals \cup {-Cent}, n \in 0..MaxSlots, p \in Precisions :
        Called([Default EXCEPT !.op = "distribute_equal", !.total_hours = t,
                               !.slots = n, !.precision = p])

RandomCalls ==
    \E t \in Totals, n \in 1..MaxSlots, p \in Precisions, k \in 0..MaxRetries :
        Called([Default EXCEPT !.op = "distribute_random", !.total_hours = t,
                               !.slots = n, !.precision = p, !.retries = k])

CopyCalls ==
    \E n \in 1..MaxSlots, t \in Totals, p \in Precisions :
        \E r \in SeqsOf(Weights, n) \cup SeqsOf({1}, n + 1) :
            Called([Default EXCEPT !.op = "copy_reference_day", !.total_hours = t,
                                   !.slots = n, !.precision = p, !.reference_day = r])

ApplyCalls ==
    \E c \in SeqsUpTo(EntryValues, MaxLen), e \in SeqsUpTo({0, 1}, MaxLen) :
        \E f \in SeqsOf(FillValues, SlotsToFill(c, e)), x \in Factors :
            Called([Default EXCEPT !.op = "apply_fill_values", !.current_values = c,
                                   !.exclude_values = e, !.fill_values = f,
                                   !.slots = SlotsToFill(c, e),
                                   !.post_randomization = x])

\* values handed to enforce_exact_sum: whole cents, a third of a cent, a
\* quarter of an hour
RawValues == {0, Cent \div 3, 8 * (Cent \div 3), Cent, 2 * Cent, 3 * Cent, 25 * Cent}

EnforceCalls ==
    \E v \in {<<>>} \cup SeqsUpTo(RawValues, MaxLen + 1),
       t \in Totals \cup {Cent \div 3, 6 * Cent}, p \in Precisions :
        Called([Default EXCEPT !.op = "enforce_exact_sum", !.values = v,
                               !.total_hours = t, !.precision = p])

\* calls of validate_hours_and_slots and of the strategies with slots
\* arguments of every sign and type
ValidateCalls ==
    \E o \in StrategyOps \cup {"validate_hours_and_slots"}, n \in -1..2,
       y \in SlotsTypes, t \in {-Cent, 0, 3 * Cent}, p \in Precisions,
       r \in {<<>>, <<1>>, <<1, 1>>} :
        /\ o # "copy_reference_day" => r = <<>>
        /\ Called([Default EXCEPT !.op = o, !.slots = n, !.slots_type = y,
                                  !.total_hours = t, !.precision = p,
                                  !.reference_day = r, !.retries = 1])

\* reference days handed to fill_day for a day of n cells
ReferenceDays(n) ==
    { [i \in 1..n |-> 1], [i \in 1..n |-> 0], [i \in 1..n |-> i],
      [i \in 1..n |-> IF i = 1 THEN -1 ELSE 2], [i \in 1..(n + 1) |-> 1],
      [i \in 1..n |-> IF i = 1 THEN NonNumeric ELSE 1] }

\* strategy name and reference day of a fill_day call
StrategyChoices(n) ==
    { <<s, <<>>>> : s \in {"equal", "random", "other"} }
    \cup { <<"copy_reference", r>> : r \in ReferenceDays(n) }

\* days of up to MaxLen cells; post-randomization for days of up to 2 cells
FillDayCalls ==
    \E c \in SeqsUpTo(EntryValues, MaxLen) :
        \E e \in {<<>>} \cup SeqsOf({0, 1}, Len(c)), o \in BOOLEAN,
           s \in StrategyChoices(Len(c)), t \in DayTotals, p \in Precisions,
           x \in IF Len(c) <= 2 THEN Factors ELSE {0} :
            Called([Default EXCEPT !.op = "fill_day", !.current_values = c,
                                   !.exclude_values = e, !.override_mode = o,
                                   !.strategy = s[1], !.total_hours = t,
                                   !.precision = p, !.retries = MaxRetries,
                                   !.post_randomization = x, !.reference_day = s[2]])

\* the calls of the doctests and of tests/test_calculations.py
H(c) == IF c = -1 THEN Blank ELSE c * Cent

DocDay(o, s, e, t, c, r, x) ==
    [Default EXCEPT !.op = "fill_day", !.override_mode = o, !.strategy = s,
                    !.exclude_values = e, !.total_hours = t * Cent,
                    !.current_values = [i \in DOMAIN c |-> H(c[i])],
                    !.retries = MaxRetries, !.reference_day = r,
                    !.post_randomization = x]

DocCalls ==
    \E c \in
        { DocDay(FALSE, "equal", <<>>, 800, <<100, -1, -1, 200>>, <<>>, 0),
          DocDay(TRUE, "equal", <<0, 0, 0>>, 600, <<200, 100, -1>>, <<>>, 0),
          DocDay(FALSE, "equal", <<1, 0, 1, 0>>, 1000, <<200, -1, 100, -1>>, <<>>, 0),
          DocDay(FALSE, "copy_reference", <<1, 0, 1, 0>>, 1000, <<200, -1, 100, -1>>,
                 <<1, 2, 3>>, 0),
          DocDay(FALSE, "equal", <<>>, 800, <<100, -1, -1, 200>>, <<>>, 20),
          [Default EXCEPT !.op = "apply_fill_values",
                          !.current_values = <<Hour, Blank, Blank, 2 * Hour>>,
                          !.exclude_values = <<0, 0, 0, 0>>,
                          !.fill_values = <<250 * Cent, 250 * Cent>>, !.slots = 2,
                          !.post_randomization = 20],
          [Default EXCEPT !.op = "enforce_exact_sum", !.total_hours = 5 * Hour,
                          !.values = [i \in 1..3 |-> (1111 * Cent) \div 10]],
          [Default EXCEPT !.op = "distribute_equal", !.total_hours = 10 * Hour,
                          !.slots = 3],
          [Default EXCEPT !.op = "distribute_equal", !.total_hours = 225 * Cent,
                          !.slots = 2],
          [Default EXCEPT !.op = "copy_reference_day", !.total_hours = 10 * Hour,
                          !.slots = 4, !.reference_day = <<0, 1, 1, 2>>] } :
        Called(c)

\* the day of test_fill_day_exclude_and_copy_reference_fallback with
\* reference days of its length
CopyDays ==
    \E r \in SeqsOf({0, 1, 3}, 4), t \in {1000, 301}, p \in Precisions, o \in BOOLEAN :
        Called([DocDay(o, "copy_reference", <<1, 0, 1, 0>>, t, <<200, -1, 100, -1>>, r, 0)
                EXCEPT !.precision = p])

Init == EqualCalls \/ RandomCalls \/ CopyCalls \/ ApplyCalls \/ FillDayCalls
        \/ DocCalls \/ CopyDays \/ EnforceCalls \/ ValidateCalls

Args == <<op, override_mode, strategy, exclude_values, total_hours, current_values,
          retries, precision, reference_day, post_randomization, slots, slots_type,
          fill_values, input_values>>

Page == <<browser, run, exclude_indices, weekdays>>

Store == <<files, filepath, weekday_index, num_slots>>

Return(outcomes) ==
    /\ pc = "call"
    /\ ret' \in outcomes
    /\ pc' = "done"
    /\ UNCHANGED <<Args, draws, current_sum, Page, Store>>

ValidateHoursAndSlots ==
    /\ op = "validate_hours_and_slots"
    /\ Return({Validate(total_hours, slots, slots_type, precision)})

EnforceExactSum ==
    /\ op = "enforce_exact_sum"
    /\ Return(enforce_exact_sum(total_hours, input_values, precision))

DistributeEqual ==
    /\ op = "distribute_equal"
    /\ Return(Typed(total_hours, slots, slots_type,
                    distribute_equal(total_hours, slots, precision)))

\* lines 96-98: distribute_random stops in the validation
DistributeRandom ==
    /\ op = "distribute_random"
    /\ Validate(total_hours, slots, slots_type, precision) # None
    /\ Return({Validate(total_hours, slots, slots_type, precision)})

\* lines 100-105: one pass of the retry loop
RandomDraw ==
    /\ op = "distribute_random" /\ pc = "call"
    /\ Validate(total_hours, slots, slots_type, precision) = None
    /\ draws < retries
    /\ \E drawn \in [1..slots -> UniformDraws(total_hours, precision)] :
          /\ draws' = draws + 1
          /\ current_sum' = SeqSum(drawn)
          /\ IF SeqSum(drawn) > 0
             THEN /\ ret' \in ScaledDraw(total_hours, slots, precision, drawn)
                  /\ pc' = "done"
             ELSE UNCHANGED <<ret, pc>>
    /\ UNCHANGED <<Args, Page, Store>>

\* line 106: the loop ended without a return
RandomExhausted ==
    /\ op = "distribute_random" /\ pc = "call"
    /\ Validate(total_hours, slots, slots_type, precision) = None
    /\ draws >= retries
    /\ ret' = RetriesExhausted
    /\ pc' = "done"
    /\ UNCHANGED <<Args, draws, current_sum, Page, Store>>

CopyReferenceDay ==
    /\ op = "copy_reference_day"
    /\ Return(CopyTyped(total_hours, slots, slots_type, reference_day,
                        copy_reference_day(total_hours, slots, reference_day, precision)))

ApplyFillValues ==
    /\ op = "apply_fill_values"
    /\ Return(apply_fill_values(current_values, exclude_values, fill_values, slots,
                                post_randomization, precision))

FillDay ==
    /\ op = "fill_day"
    /\ Return(fill_day(override_mode, strategy, exclude_values, total_hours,
                       current_values, retries, precision, reference_day,
                       post_randomization))

Next == ValidateHoursAndSlots \/ EnforceExactSum \/ DistributeEqual
        \/ DistributeRandom \/ RandomDraw \/ RandomExhausted \/ CopyReferenceDay
        \/ ApplyFillValues \/ FillDay

Spec == Init /\ [][Next]_vars

(***************************************************************************)
(* core.py: set_week and reset_week on the timesheet page.  The page shows *)
(* one week at a time; a week has the dates of DaySeq, a date has MaxRows  *)
(* hour fields.  exclude_indices and weekdays are sets: None behaves as    *)
(* the empty list in both (lines 107-109, 208-209, 391-396).               *)
(***************************************************************************)
Weeks == {-1, 0, 1}              \* week offsets from the current week
DaySeq == <<0, 1>>               \* the dates of a week, sorted, as weekday indices
DaySet == { DaySeq[i] : i \in DOMAIN DaySeq }
Cells == Weeks \X DaySet
Rows == 1..MaxRows

\* lines 107-111: filter_dates_by_weekdays
filter_dates_by_weekdays(dates, days) ==
    IF days = {} THEN dates ELSE SelectSeq(dates, LAMBDA d : d \in days)

\* lines 208-209, 391-392: the exclude mask of a day with n fields
ExcludeMask_Empty(n, indices) == [i \in 1..n |-> 0]

ExcludeMask(n, indices) == [i \in 1..n |-> IF (i - 1) \in indices THEN 1 ELSE 0]

\* lines 114-129: navigate_weeks clicks the back arrow `weeks` times, the
\* forward arrow -weeks times for a negative `weeks`; a click moves the
\* page by one week
navigate_weeks_OneClick(b, weeks) ==
    IF weeks = 0 THEN b
    ELSE IF weeks > 0 THEN [b EXCEPT !.visible = @ - 1, !.back = @ + 1]
    ELSE [b EXCEPT !.visible = @ + 1, !.forward = @ + 1]

navigate_weeks(b, weeks) ==
    IF weeks = 0 THEN b
    ELSE IF weeks > 0 THEN [b EXCEPT !.visible = @ - weeks, !.back = @ + weeks]
    ELSE [b EXCEPT !.visible = @ + Abs(weeks), !.forward = @ + Abs(weeks)]

\* lines 87-104: get_hours_per_day reads the fields of the visible week
get_hours_per_day(b) == [d \in DaySet |-> b.fields[<<b.visible, d>>]]

\* the share of a row when the target of 3 h is spread equally
EqualShare == (3 * Hour) \div MaxRows

\* the entries of a date: no hours or 2 h in a row, or every row 0.01 h or
\* 0.005 h under the equal share
PageEntries ==
    SeqsOf({0, 2 * Hour}, MaxRows)
    \cup { [i \in Rows |-> EqualShare - Cent], [i \in Rows |-> EqualShare - Cent \div 2] }

\* the pages: the same entries on every date, at most one field that is
\* not displayed or not enabled
Pages ==
    { [fields |-> [c \in Cells |-> entries],
       usable |-> [c \in Cells |-> [i \in Rows |-> <<c[2], i>> # off]],
       written |-> [c \in Cells |-> [i \in Rows |-> 0]],
       before |-> [c \in Cells |-> entries],
       target |-> t,
       visible |-> 0, back |-> 0, forward |-> 0]
      : entries \in PageEntries,
        off \in {<<9, 9>>, <<0, 1>>, <<1, MaxRows>>},
        t \in {[d \in DaySet |-> 3 * Hour], [d \in DaySet |-> IF d = 0 THEN 0 ELSE 3 * Hour]} }

\* the calls of set_week and reset_week
WeekCalls ==
    { [Default EXCEPT !.op = "reset_week"],
      [Default EXCEPT !.op = "set_week", !.strategy = "equal"],
      [Default EXCEPT !.op = "set_week", !.strategy = "copy_reference",
                      !.reference_day = [i \in Rows |-> i]] }

\* the week specs of a call, as offsets from the current week (lines
\* 285-291, 363-368)
WeekOffsets == {<<0>>, <<-1, 0>>, <<0, 0>>, <<-1, -1, 1>>}

WeekInit ==
    \E c \in WeekCalls, b \in Pages, offs \in WeekOffsets :
        /\ CallState([c EXCEPT !.override_mode = TRUE, !.retries = 3])
        /\ browser = b
        /\ run = [NoRun EXCEPT !.offsets = offs]
        /\ exclude_indices \in SUBSET (0..(MaxRows - 1))
        /\ weekdays \in {{}, {0}, {1}}
        /\ NoStore

\* the dates of the visible week that the call works on: lines 152-157 of
\* set_week (dates with a target), 379-382 of reset_week
DatesToProcess(b) ==
    LET sorted_dates == filter_dates_by_weekdays(DaySeq, weekdays)
    IN IF op = "set_week"
       THEN SelectSeq(sorted_dates, LAMBDA d : b.target[d] > 0)
       ELSE sorted_dates

\* lines 295-299 and 143-157, 372-382: the next requested week is brought
\* up and its fields are read
NextWeek ==
    /\ op \in {"set_week", "reset_week"} /\ pc = "call"
    /\ run.dates = <<>> /\ run.index <= Len(run.offsets)
    /\ LET off == run.offsets[run.index]
           step == run.current_offset - off
           b == IF step # 0 THEN navigate_weeks(browser, step) ELSE browser
       IN /\ browser' = b
          /\ run' = [run EXCEPT !.index = @ + 1,
                                !.current_offset = IF step # 0 THEN off ELSE @,
                                !.hours_data = get_hours_per_day(b),
                                !.dates = DatesToProcess(b)]
    /\ UNCHANGED <<Args, draws, current_sum, pc, ret, exclude_indices, weekdays, Store>>

\* line 234: the results abs(new_hour - old_hours) > 0.01 can have; for
\* two values exactly 0.01 apart the float difference can be above or
\* below the float 0.01, unless one of them is 0
Changed(new_hour, old_hours) ==
    IF Abs(new_hour - old_hours) # Cent THEN {Abs(new_hour - old_hours) > Cent}
    ELSE IF new_hour = 0 \/ old_hours = 0 THEN {FALSE}
    ELSE {TRUE, FALSE}

\* lines 230-242: the fields of the date whose new value is more than 0.01
\* from the value read are cleared and typed, if displayed and enabled;
\* the field then shows str(new_hour), which reads back as new_hour
WriteDay_AllFields(b, cell, old, new) ==
    { [b EXCEPT !.fields[cell] = [i \in Rows |-> IF b.usable[cell][i] THEN new[i] ELSE @[i]],
                !.written[cell] = [i \in Rows |-> IF b.usable[cell][i] THEN @[i] + 1 ELSE @[i]]] }

WriteDay(b, cell, old, new) ==
    { [b EXCEPT !.fields[cell] = [i \in Rows |->
                    IF changed[i] /\ b.usable[cell][i] THEN new[i] ELSE @[i]],
                !.written[cell] = [i \in Rows |->
                    IF changed[i] /\ b.usable[cell][i] THEN @[i] + 1 ELSE @[i]]]
      : changed \in { c \in [Rows -> BOOLEAN] :
                        \A i \in Rows : c[i] \in Changed(new[i], old[i]) } }

\* lines 164-244: one date of _process_visible_week; a failure of fill_day
\* ends set_week (line 327)
SetDate ==
    /\ op = "set_week" /\ pc = "call" /\ run.dates # <<>>
    /\ LET date == Head(run.dates)
           current == run.hours_data[date]
       IN \E r \in fill_day(TRUE, strategy, ExcludeMask(Len(current), exclude_indices),
                            browser.target[date], current, 3, 2, reference_day,
                            post_randomization) :
            IF r.status = "ok"
            THEN /\ browser' \in WriteDay(browser, <<browser.visible, date>>, current, r.value)
                 /\ run' = [run EXCEPT !.dates = Tail(@), !.new_values = r.value]
                 /\ UNCHANGED <<pc, ret>>
            ELSE /\ pc' = "done"
                 /\ ret' = Raise("Exception", "Setting week failed")
                 /\ UNCHANGED <<browser, run>>
    /\ UNCHANGED <<Args, draws, current_sum, exclude_indices, weekdays, Store>>

\* lines 394-403: the fields of the date that are not excluded are cleared
\* and get '0', if displayed and enabled
ResetDay(b, cell, ex_mask) ==
    LET write == [i \in Rows |-> ex_mask[i] # 1 /\ b.usable[cell][i]]
    IN [b EXCEPT !.fields[cell] = [i \in Rows |-> IF write[i] THEN 0 ELSE @[i]],
                 !.written[cell] = [i \in Rows |-> IF write[i] THEN @[i] + 1 ELSE @[i]]]

\* lines 386-404: one date of reset_week
ResetDate ==
    /\ op = "reset_week" /\ pc = "call" /\ run.dates # <<>>
    /\ LET date == Head(run.dates)
       IN browser' = ResetDay(browser, <<browser.visible, date>>,
                              ExcludeMask(Len(run.hours_data[date]), exclude_indices))
    /\ run' = [run EXCEPT !.dates = Tail(@)]
    /\ UNCHANGED <<Args, draws, current_sum, pc, ret, exclude_indices, weekdays, Store>>

\* lines 316-324, 406-414: every requested week is done
WeekDone ==
    /\ op \in {"set_week", "reset_week"} /\ pc = "call"
    /\ run.dates = <<>> /\ run.index > Len(run.offsets)
    /\ pc' = "done"
    /\ ret' = Ok(<<>>)
    /\ UNCHANGED <<Args, draws, current_sum, Page, Store>>

WeekNext == NextWeek \/ SetDate \/ ResetDate \/ WeekDone

WeekSpec == WeekInit /\ [][WeekNext]_vars

(***************************************************************************)
(* reference_handler.py: the reference files of copy_reference.  A file is *)
(* the list of rows csv.reader gives, a row the list of its cells, a cell  *)
(* a string.  The file system maps a resolved path to a file.              *)
(***************************************************************************)
DefaultPath == "data/default_reference.csv"   \* DEFAULT_REFERENCE_FILE, resolved
AliasPath == "./data/default_reference.csv"   \* another spelling of the same file
UserPath == "ref.csv"                         \* a file outside the package data dir
DataDirUserPath == "data/ref.csv"             \* the user file's name in the data dir

\* Path.resolve()
Resolve(path) == IF path = AliasPath THEN DefaultPath ELSE path

\* Path.with_suffix('.csv.bak'), resolved
WithSuffixBak(path) ==
    IF Resolve(path) = DefaultPath THEN "data/default_reference.csv.bak" ELSE "ref.csv.bak"

StoredPaths ==
    {DefaultPath, UserPath, DataDirUserPath, WithSuffixBak(DefaultPath), WithSuffixBak(UserPath)}

Missing == [exists |-> FALSE, rows |-> <<>>]
FileOf(rows) == [exists |-> TRUE, rows |-> rows]

\* str.strip() on the strings of the model
Strip(str) ==
    CASE str = " " -> ""
      [] str = " MON " -> "MON"
      [] str = " 3 " -> "3"
      [] OTHER -> str

\* str.lower() on the strings of the model
Lower(str) ==
    CASE str = "Mo" -> "mo" [] str = "Mon" -> "mon" [] str = "MON" -> "mon"
      [] str = "Monday" -> "monday"
      [] str = "Di" -> "di" [] str = "Tue" -> "tue" [] str = "Tuesday" -> "tuesday"
      [] str = "Mi" -> "mi" [] str = "Wed" -> "wed" [] str = "Wednesday" -> "wednesday"
      [] str = "Do" -> "do" [] str = "Thu" -> "thu" [] str = "Thursday" -> "thursday"
      [] str = "Fr" -> "fr" [] str = "Fri" -> "fri" [] str = "Friday" -> "friday"
      [] str = "Sa" -> "sa" [] str = "Sat" -> "sat" [] str = "Saturday" -> "saturday"
      [] str = "So" -> "so" [] str = "Sun" -> "sun" [] str = "Sunday" -> "sunday"
      [] OTHER -> str

\* lines 15-23
WEEKDAY_HEADERS ==
    (0 :> {"Mo", "Mon", "Monday"}) @@ (1 :> {"Di", "Tue", "Tuesday"})
    @@ (2 :> {"Mi", "Wed", "Wednesday"}) @@ (3 :> {"Do", "Thu", "Thursday"})
    @@ (4 :> {"Fr", "Fri", "Friday"}) @@ (5 :> {"Sa", "Sat", "Saturday"})
    @@ (6 :> {"So", "Sun", "Sunday"})

\* float(str) on the strings of the model: the value in ticks, or no
\* entry where float raises ValueError
FloatOf ==
    ("0" :> 0) @@ ("0.00" :> 0) @@ ("1.00" :> Hour) @@ ("2.5" :> 250 * Cent)
    @@ ("2.50" :> 250 * Cent) @@ ("3" :> 3 * Hour) @@ ("3.00" :> 3 * Hour)

\* f"{val:.2f}" on the values of the model
Format2 ==
    (0 :> "0.00") @@ (Hour :> "1.00") @@ (250 * Cent :> "2.50") @@ (3 * Hour :> "3.00")

\* str(i) of a row number
IndexStr(i) == <<"1", "2", "3", "4", "5", "6", "7", "8", "9">>[i]

\* lines 52, 81, 124, 190: float(cell.strip()) if cell.strip() else 0.0,
\* 0.0 on ValueError
ParseCell(cell) ==
    LET text == Strip(cell)
    IN IF text = "" THEN 0
       ELSE IF text \in DOMAIN FloatOf THEN FloatOf[text] ELSE 0

\* lines 121-127 (and 49-55, 187-193): the cells of column col_idx (from 0)
\* of the data rows that reach that column
ColumnValues(rows, col_idx) ==
    LET data == SubSeq(rows, 2, Len(rows))
        reaching == SelectSeq(data, LAMBDA row : Len(row) > col_idx)
    IN [i \in 1..Len(reaching) |-> ParseCell(reaching[i][col_idx + 1])]

\* lines 26-32
read_csv(fs, path) ==
    IF fs[Resolve(path)].exists THEN fs[Resolve(path)].rows ELSE <<>>

\* lines 133-136
create_default_reference(n) == IF n <= 0 THEN <<>> ELSE [i \in 1..n |-> Hour]

\* lines 35-58
load_reference_day(fs, path0, n) ==
    LET path == IF path0 = "" THEN DefaultPath ELSE path0
        rows == read_csv(fs, path)
        default == IF n # 0 THEN create_default_reference(n) ELSE <<>>
    IN IF Len(rows) < 2 THEN default
       ELSE IF Len(rows[1]) < 2 THEN default
       ELSE LET values == ColumnValues(rows, 1)
            IN IF n # 0 /\ Len(values) # n THEN create_default_reference(n)
               ELSE values

\* lines 102-113: the column chosen for the weekday, from 0; -1 is None
SelectColumn(header, w) ==
    LET labels == IF w \in DOMAIN WEEKDAY_HEADERS
                  THEN { Lower(lbl) : lbl \in WEEKDAY_HEADERS[w] } ELSE {}
        matching == { i \in 1..(Len(header) - 1) :
                        Lower(Strip(header[i + 1])) \in labels }
        pos_idx == 1 + w
    IN IF matching # {} THEN CHOOSE i \in matching : \A j \in matching : i <= j
       ELSE IF Len(header) >= 3 /\ pos_idx < Len(header) THEN pos_idx
       ELSE -1

\* lines 89-130
load_reference_for_weekday(fs, path, w, n) ==
    LET rows == read_csv(fs, path)
        col_idx == SelectColumn(rows[1], w)
    IN IF rows = <<>>
       THEN Raise("ValueError", "Reference file missing or unreadable")
       ELSE IF col_idx = -1
       THEN LET values == load_reference_day(fs, path, n)
            IN IF n # 0 /\ Len(values) # n
               THEN Raise("ValueError", "Reference file malformed or wrong dimensions")
               ELSE Ok(values)
       ELSE LET values == ColumnValues(rows, col_idx)
            IN IF n # 0 /\ Len(values) # n
               THEN Raise("ValueError", "Reference dimension mismatch")
               ELSE Ok(values)

\* lines 139-146
save_reference_day(fs, path, values) ==
    [fs EXCEPT ![Resolve(path)] =
        FileOf(<<<<"", "Mo">>>>
               \o [i \in 1..Len(values) |-> <<IndexStr(i), Format2[values[i]]>>])]

\* lines 164-171, 174-177, 182-185, 198-201: the default file is written
\* at the path given (the packaged default file at its resolved path)
WriteDefault(fs, path, n) ==
    LET target_path == IF Resolve(path) = DefaultPath THEN DefaultPath ELSE path
    IN [fs |-> save_reference_day(fs, target_path, create_default_reference(n)),
        path |-> target_path]

\* lines 195-197: the file is renamed to its backup name
RenameToBackup(fs, path) ==
    IF fs[Resolve(path)].exists
    THEN [fs EXCEPT ![WithSuffixBak(path)] = fs[Resolve(path)],
                    ![Resolve(path)] = Missing]
    ELSE fs

\* lines 149-202: the file system after the call and the path returned
ensure_reference_file(fs, path, n) ==
    LET rows == read_csv(fs, path)
    IN IF ~fs[Resolve(path)].exists THEN WriteDefault(fs, path, n)
       ELSE IF Len(rows) < 2 THEN WriteDefault(fs, path, n)
       ELSE IF Len(rows[1]) <= 1 THEN WriteDefault(fs, path, n)
       ELSE IF Len(ColumnValues(rows, 1)) # n
       THEN WriteDefault(RenameToBackup(fs, path), path, n)
       ELSE [fs |-> fs, path |-> path]

\* the reference files of the model: a header and up to MaxFileRows data
\* rows, an existing file without a line, no file
FileHeaders ==
    { <<"Mo">>, <<"", "Mo">>, <<"", " MON ">>, <<"", "x">>, <<"", "x", "Di">>,
      <<"", "Tue", "Di">>, <<"", "x", "y">> }
FileRows == { <<"1", "1.00", "2.5">>, <<"2", "", "abc">>, <<"3", " 3 ">>, <<"4">>, <<>> }
FileContents ==
    { Missing, FileOf(<<>>) }
    \cup { FileOf(<<h>> \o d) : h \in FileHeaders,
                               d \in {<<>>} \cup SeqsUpTo(FileRows, MaxFileRows) }

WeekdayIndices == {0, 1, 2}

\* the packaged default file: a week file of two rows, or none
DefaultFiles ==
    { Missing,
      FileOf(<<<<"", "Mo", "Di", "Mi">>, <<"1", "1.00", "2.5", "3">>,
               <<"2", "1.00", "1.00", "1.00">>>>) }

\* a call of reference_handler.py on a file system with a user file and
\* the default file
RefInit ==
    \E o \in {"load_reference_for_weekday", "load_reference_day", "ensure_reference_file"},
       u \in FileContents, d \in DefaultFiles,
       f \in {UserPath, DefaultPath, AliasPath}, w \in WeekdayIndices,
       n \in 0..(MaxFileRows + 1) :
        /\ o # "load_reference_for_weekday" => w = 0
        /\ o = "ensure_reference_file" => n >= 1
        /\ CallState([Default EXCEPT !.op = o])
        /\ browser = NoBrowser /\ run = NoRun
        /\ exclude_indices = {} /\ weekdays = {}
        /\ files = [q \in StoredPaths |->
                       IF q = UserPath THEN u ELSE IF q = DefaultPath THEN d
                       ELSE Missing]
        /\ filepath = f
        /\ weekday_index = w
        /\ num_slots = n

LoadReferenceForWeekday ==
    /\ op = "load_reference_for_weekday" /\ pc = "call"
    /\ ret' = load_reference_for_weekday(files, filepath, weekday_index, num_slots)
    /\ pc' = "done"
    /\ UNCHANGED <<Args, draws, current_sum, Page, Store>>

LoadReferenceDay ==
    /\ op = "load_reference_day" /\ pc = "call"
    /\ ret' = Ok(load_reference_day(files, filepath, num_slots))
    /\ pc' = "done"
    /\ UNCHANGED <<Args, draws, current_sum, Page, Store>>

EnsureReferenceFile ==
    /\ op = "ensure_reference_file" /\ pc = "call"
    /\ LET r == ensure_reference_file(files, filepath, num_slots)
       IN /\ files' = r.fs
          /\ ret' = Ok(<<r.path>>)
    /\ pc' = "done"
    /\ UNCHANGED <<Args, draws, current_sum, Page, filepath, weekday_index, num_slots>>

RefNext == LoadReferenceForWeekday \/ LoadReferenceDay \/ EnsureReferenceFile

RefSpec == RefInit /\ [][RefNext]_vars

(***************************************************************************)
(* Properties                                                              *)
(***************************************************************************)
Done(o) == pc = "done" /\ op = o
Returned == ret.status = "ok"

\* the mask fill_day works with, and the cells as it sees them
Mask == IF exclude_values = <<>> THEN [i \in DOMAIN current_values |-> 0]
        ELSE exclude_values
Seen == [i \in DOMAIN current_values |->
            IF override_mode THEN Blank ELSE current_values[i]]
Eligible == { i \in DOMAIN current_values : Seen[i] = Blank /\ Mask[i] = 0 }

RECURSIVE SetSum(_, _)
SetSum(f, S) == IF S = {} THEN 0
                ELSE LET i == CHOOSE x \in S : TRUE IN f[i] + SetSum(f, S \ {i})

\* C1: whenever fill_day returns, the result has the length of
\* current_values, no negative entry and sums exactly to total_hours.
C1_ResultShape ==
    (Done("fill_day") /\ Returned) =>
        /\ Len(ret.value) = Len(current_values)
        /\ \A i \in DOMAIN ret.value : ret.value[i] >= 0
        /\ SeqSum(ret.value) = total_hours

\* fill_day returned for a day with an excluded blank cell, with post-randomization
C1_Witness ==
    /\ Done("fill_day") /\ Returned
    /\ post_randomization # 0 /\ total_hours > 0
    /\ \E i \in DOMAIN current_values : Mask[i] = 1 /\ current_values[i] = Blank
    /\ Eligible # {}

\* C2: whenever fill_day returns, every excluded position holds exactly the
\* value current_values had there, also with override_mode and also for -1.
C2_ExcludedVerbatim ==
    (Done("fill_day") /\ Returned) =>
        \A i \in DOMAIN current_values :
            Mask[i] = 1 => ret.value[i] = current_values[i]

\* C3: for valid input (mask as long as the vector, known strategy, a blank
\* eligible slot, total_hours >= 0 at the precision) the final assertion
\* sum(result) == total_hours never fails.
C3_PostconditionHolds ==
    (/\ Done("fill_day")
     /\ strategy \in StrategyNames
     /\ Len(Mask) = Len(current_values)
     /\ Eligible # {}
     /\ total_hours >= 0 /\ Round(total_hours, precision) = total_hours)
    => ~(ret.status = "AssertionError" /\ ret.at = "calculated values do not add up")

\* C4: for total_hours >= 0 and slot_count >= 1 each strategy returns
\* slot_count values whose rounded sum is the rounded total_hours.
C4_StrategiesReturnSum ==
    (/\ pc = "done" /\ op \in StrategyOps
     /\ total_hours >= 0 /\ slots >= 1
     /\ op = "copy_reference_day" =>
            (Len(reference_day) = slots /\ SeqSum(reference_day) > 0))
    => /\ Returned
       /\ Len(ret.value) = slots
       /\ Round(SeqSum(ret.value), precision) = Round(total_hours, precision)

\* C5: every value a strategy returns is >= 0, the slot that takes the
\* rounding residual included.
C5_StrategyValuesNonNegative ==
    (/\ pc = "done" /\ op \in StrategyOps /\ Returned
     /\ total_hours >= 0 /\ slots >= 1)
    => \A i \in DOMAIN ret.value : ret.value[i] >= 0

\* C6: without override every non-blank position keeps its value, excluded
\* or not; a blank excluded position gets no fill value (it shows 0).
C6_EnteredValuesKept ==
    (Done("fill_day") /\ Returned /\ ~override_mode) =>
        \A i \in DOMAIN current_values :
            /\ current_values[i] # Blank => ret.value[i] = current_values[i]
            /\ (current_values[i] = Blank /\ Mask[i] = 1) => ret.value[i] = 0

\* fill_day without override returned for a day with an entered value and a
\* cell that got a positive fill value
C6_Witness ==
    /\ Done("fill_day") /\ Returned /\ ~override_mode
    /\ \E i \in DOMAIN current_values : current_values[i] > 0
    /\ \E j \in Eligible : ret.value[j] > 0

\* C7: with override_mode the possible outcomes of fill_day do not depend
\* on the entries of current_values, only on its length: every call has the
\* outcomes of the call on the all-blank vector of that length, so any two
\* calls that differ only in the entries have the same outcomes.  The set of
\* outcomes is a function of the arguments: it is compared once per call.
C7_OverrideIgnoresEntries ==
    (pc = "call" /\ op = "fill_day" /\ override_mode) =>
        fill_day(TRUE, strategy, exclude_values, total_hours, current_values, retries,
                 precision, reference_day, post_randomization)
        = fill_day(TRUE, strategy, exclude_values, total_hours,
                   [i \in DOMAIN current_values |-> Blank], retries,
                   precision, reference_day, post_randomization)

\* fill_day with override returned for a day that had an entered value
C7_Witness ==
    /\ Done("fill_day") /\ Returned /\ override_mode
    /\ \E i \in DOMAIN current_values : current_values[i] > 0
    /\ \E i \in DOMAIN current_values : ret.value[i] # current_values[i]

\* C8: the equal strategy spreads max(0, total_hours - entered values),
\* rounded, over the blank non-excluded cells: they sum to it and at most
\* one of them differs from the even share; the documented day
\* fill_day(False, "equal", [1,0,1,0], 10, [2,-1,1,-1]) gives [2, 3.5, 1, 3.5].
C8_EqualShares ==
    (Done("fill_day") /\ Returned /\ strategy = "equal" /\ post_randomization = 0) =>
        LET entered == SetSum(Seen, { i \in DOMAIN Seen : Seen[i] # Blank })
            hours == Round(Max(0, total_hours - entered), precision)
            share == RoundQ(hours, Cardinality(Eligible), precision)
        IN /\ SetSum(ret.value, Eligible) = hours
           /\ Cardinality({ i \in Eligible : ret.value[i] # share }) <= 1
           /\ (/\ current_values = <<2 * Hour, Blank, Hour, Blank>>
               /\ exclude_values = <<1, 0, 1, 0>> /\ total_hours = 10 * Hour
               /\ ~override_mode)
              => ret.value = <<2 * Hour, 350 * Cent, Hour, 350 * Cent>>

\* the documented day of doctest 3 was filled
C8_Witness ==
    /\ Done("fill_day") /\ Returned /\ strategy = "equal"
    /\ current_values = <<2 * Hour, Blank, Hour, Blank>>
    /\ exclude_values = <<1, 0, 1, 0>> /\ total_hours = 10 * Hour
    /\ ~override_mode

\* C9: for a non-negative fill vector and 0 <= factor < 1 the sum assertion
\* that closes the post-randomization step never fails.
C9_RandomizationKeepsSum ==
    (/\ pc = "done" /\ op = "apply_fill_values"
     /\ post_randomization >= 0 /\ post_randomization < 100
     /\ \A i \in DOMAIN fill_values : fill_values[i] >= 0)
    => ~(ret.status = "AssertionError" /\ ret.at = "Post randomization failed")

\* C10: for a non-negative fill vector and 0 <= factor < 1 every value the
\* post-randomization step produces is >= 0.
C10_RandomizedNonNegative ==
    (/\ pc = "done" /\ op = "apply_fill_values"
     /\ post_randomization > 0 /\ post_randomization < 100
     /\ \A i \in DOMAIN fill_values : fill_values[i] >= 0)
    => \A i \in DOMAIN ret.rv : ret.rv[i] >= 0

\* the reference entries, the hours and the slot count fill_day hands to
\* copy_reference_day
FilteredSeen == FilteredReference(reference_day, Mask, Seen, 1)
HoursSeen == HoursToDistribute(total_hours, Seen, precision)
CopyOutcomes ==
    copy_reference_day(HoursSeen, Cardinality(Eligible), FilteredSeen, precision)
CopyFails ==
    HasNonNumeric(reference_day) \/ \A r \in CopyOutcomes : r.status # "ok"
CopyFailure(r) ==
    \/ r.status \in {"TypeError", "ZeroDivisionError"}
    \/ r.at = "reference day is not of same length as number of slots"

\* C11: with strategy copy_reference and an eligible blank slot, a failure
\* of the reference filtering or of copy_reference_day (length mismatch,
\* all-zero filtered reference, an entry that is no number) does not leave
\* fill_day: the except branch is taken and the outcome is one of the same
\* call with the equal strategy.  The set of outcomes is a function of the
\* arguments: it is looked at once per call.
C11_CopyFallsBackToEqual ==
    (/\ pc = "call" /\ op = "fill_day" /\ strategy = "copy_reference"
     /\ Len(Mask) = Len(current_values) /\ Eligible # {})
    => LET outcomes == fill_day(override_mode, "copy_reference", exclude_values,
                                total_hours, current_values, retries, precision,
                                reference_day, post_randomization)
       IN /\ \A r \in outcomes : ~CopyFailure(r) /\ (CopyFails => r.fallback)
          /\ { [r EXCEPT !.fallback = FALSE] : r \in { x \in outcomes : x.fallback } }
               \subseteq fill_day(override_mode, "equal", exclude_values, total_hours,
                                  current_values, retries, precision, reference_day,
                                  post_randomization)

\* fill_day returned a filled day although the reference could not be used
C11_Witness ==
    /\ Done("fill_day") /\ strategy = "copy_reference" /\ Returned
    /\ Len(Mask) = Len(current_values) /\ Eligible # {} /\ CopyFails
    /\ \E j \in Eligible : ret.value[j] > 0

\* the reference entry fill_day sees at position i, negatives as 0
RefAt(i) == IF i \in DOMAIN reference_day THEN Max(reference_day[i], 0) ELSE 0

\* C12: with strategy copy_reference and no fallback every blank non-excluded
\* position i gets hours_to_distribute * r[i] / (sum of r over the blank
\* non-excluded positions) rounded to precision, r the reference entries at
\* the same positions with negatives as 0; at most one position deviates, by
\* the rounding residual; the entries at other positions play no part.
C12_ProportionalShares ==
    (/\ Done("fill_day") /\ Returned /\ strategy = "copy_reference"
     /\ post_randomization = 0
     /\ Len(Mask) = Len(current_values) /\ Eligible # {} /\ ~ret.fallback
     /\ SeqSum(FilteredSeen) > 0)
    => LET weight == SetSum([i \in Eligible |-> RefAt(i)], Eligible)
           share == [i \in Eligible |-> RoundQ(HoursSeen * RefAt(i), weight, precision)]
       IN /\ Cardinality({ i \in Eligible : ret.value[i] # share[i] }) <= 1
          /\ SetSum(ret.value, Eligible) = HoursSeen

\* a day with two cells to fill of different weight, and other weights at
\* the excluded cells, was filled in proportion
C12_Witness ==
    /\ Done("fill_day") /\ Returned /\ strategy = "copy_reference" /\ ~ret.fallback
    /\ post_randomization = 0
    /\ \E i \in Eligible, j \in Eligible :
          /\ RefAt(i) # RefAt(j) /\ 0 < ret.value[i] /\ ret.value[i] < ret.value[j]
    /\ \E k \in DOMAIN current_values : Mask[k] = 1 /\ reference_day[k] > 0

\* line 49: the values rounded element-wise
RoundedValues == [i \in DOMAIN input_values |-> Round(input_values[i], precision)]

\* C13: for non-empty values and a target_total that is a multiple of
\* 10^-precision enforce_exact_sum returns a list of the same length that
\* sums to target_total and differs from the rounded input in at most one
\* position, which carries the residual; an empty input is returned empty.
C13_EnforcedSum ==
    Done("enforce_exact_sum") =>
        /\ input_values = <<>> => ret = Ok(<<>>)
        /\ (input_values # <<>> /\ Round(total_hours, precision) = total_hours) =>
              /\ Returned
              /\ Len(ret.value) = Len(input_values)
              /\ SeqSum(ret.value) = total_hours
              /\ \E i \in DOMAIN input_values :
                    /\ \A j \in DOMAIN input_values \ {i} : ret.value[j] = RoundedValues[j]
                    /\ ret.value[i] = RoundedValues[i] + total_hours - SeqSum(RoundedValues)

\* C14: if the values sum exactly to target_total, enforce_exact_sum
\* returns them unchanged.
C14_ExactInputUnchanged ==
    (Done("enforce_exact_sum") /\ SeqSum(input_values) = total_hours)
    => (Returned /\ ret.value = input_values)

\* C15: for slot_count = 1 every strategy returns the one-element list
\* [total_hours rounded to the precision the caller gave], without a random
\* draw and without a division by the reference sum.
C15_SingleSlot ==
    (/\ pc = "done" /\ op \in StrategyOps /\ slots = 1 /\ total_hours >= 0
     /\ op = "copy_reference_day" => Len(reference_day) = 1)
    => ret = Ok(<<Round(total_hours, precision)>>)

ValidationMessages ==
    {"slots must be a positive integer", "total_hours must be non-negative",
     "slots must be int"}

\* C16: validate_hours_and_slots, and through it every strategy, raises
\* ValueError for slots <= 0, ValueError for total_hours < 0, TypeError for
\* a positive slots that is no int, and none of them for a positive int and
\* total_hours >= 0; the error names the precondition that is violated and
\* no list is returned.
C16_Validation ==
    (pc = "done" /\ op \in StrategyOps \cup {"validate_hours_and_slots"}) =>
        IF SlotsNotPositive(slots, slots_type)
        THEN ret.status = "ValueError" /\ ret.at = "slots must be a positive integer"
        ELSE IF total_hours < 0
        THEN ret.status = "ValueError" /\ ret.at = "total_hours must be non-negative"
        ELSE IF slots_type # "int"
        THEN ret.status = "TypeError" /\ ret.at = "slots must be int"
        ELSE /\ ret.at \notin ValidationMessages
             /\ op = "validate_hours_and_slots" => ret.status \in {"ok", "None"}

\* C17: fill_day called with a strategy name outside {equal, random,
\* copy_reference} and a mask as long as the vector raises KeyError with the
\* name in its message, whatever the override mode and the entries; the
\* 'Strategy unknown' ValueError of the last branch is never raised.
C17_UnknownStrategy ==
    Done("fill_day") =>
        /\ (strategy \notin {"equal", "random", "copy_reference"}
            /\ Len(Mask) = Len(current_values))
           => ret = Raise("KeyError", strategy)
        /\ ret.at # "Strategy unknown"

\* fill_day in override mode refused an unknown strategy for a day with an
\* entered value
C17_Witness ==
    /\ Done("fill_day") /\ strategy = "other" /\ override_mode
    /\ \E i \in DOMAIN current_values : current_values[i] > 0
    /\ ret.status = "KeyError" /\ ret.at = "other"

\* C18: distribute_random with slot_count >= 2 ends after at most `retries`
\* draws: it returns at the first draw whose raw sum is positive, and it
\* raises the retries-exhausted error exactly when each of the `retries`
\* draws had the raw sum zero.
C18_RandomDraws ==
    (/\ op = "distribute_random" /\ slots >= 2 /\ slots_type = "int"
     /\ total_hours >= 0)
    => /\ draws <= retries
       /\ pc = "call" => current_sum = 0
       /\ pc = "done" =>
            IF current_sum > 0
            THEN Returned
            ELSE draws = retries /\ ret = RetriesExhausted

\* C19: set_week called with exclude_indices never writes to a field whose
\* row index is in exclude_indices; such a field holds the value it had
\* before the run.
C19_ExcludedFieldsKept ==
    op = "set_week" =>
        \A c \in Cells, i \in Rows :
            (i - 1) \in exclude_indices =>
                /\ browser.written[c][i] = 0
                /\ browser.fields[c][i] = browser.before[c][i]

\* how often the week of a cell is processed by the call
Passes(c) == Cardinality({ j \in DOMAIN run.offsets : run.offsets[j] = c[1] })

\* C20: after reset_week every displayed and enabled field of every
\* processed date (all dates, or those whose weekday is in weekdays) whose
\* row index is not in exclude_indices holds 0 and was written once per
\* processing of its week; a field at an excluded index is never written.
C20_ResetWrites ==
    (op = "reset_week" /\ pc = "done") =>
        /\ ret = Ok(<<>>)
        /\ \A c \in Cells, i \in Rows :
              IF (i - 1) \in exclude_indices
              THEN /\ browser.written[c][i] = 0
                   /\ browser.fields[c][i] = browser.before[c][i]
              ELSE (/\ Passes(c) > 0
                    /\ weekdays = {} \/ c[2] \in weekdays
                    /\ browser.usable[c][i])
                   => /\ browser.fields[c][i] = 0
                      /\ browser.written[c][i] = Passes(c)

\* reset_week ended after two passes over a week in which an entered value
\* was reset and an entered value at an excluded index was kept
C20_Witness ==
    /\ op = "reset_week" /\ pc = "done"
    /\ \E c \in Cells, i \in Rows, j \in Rows :
          /\ browser.written[c][i] = 2 /\ browser.before[c][i] > 0
          /\ browser.fields[c][i] = 0
          /\ (j - 1) \in exclude_indices /\ browser.fields[c][j] > 0

\* C21: set_week and reset_week take up the week specs in the order given;
\* when the k-th spec is processed the back clicks minus the forward clicks
\* so far are minus its offset from the current week and the page shows
\* that week; a spec equal to the week displayed causes no click, and no
\* click happens while the dates of a week are processed.
C21_WeekNavigation ==
    [][IF run'.index # run.index
       THEN LET off == run.offsets[run.index]
            IN /\ run'.index = run.index + 1
               /\ browser'.visible = off
               /\ browser'.back - browser'.forward = -off
               /\ off = browser.visible =>
                     /\ browser'.back = browser.back
                     /\ browser'.forward = browser.forward
       ELSE /\ browser'.back = browser.back
            /\ browser'.forward = browser.forward]_vars

\* the call with the specs -1, -1, 1 ended: one back click for the first,
\* none for the second, two forward clicks for the third
C21_Witness ==
    /\ op \in {"set_week", "reset_week"} /\ pc = "done" /\ ret = Ok(<<>>)
    /\ run.offsets = <<-1, -1, 1>> /\ run.index = 4
    /\ browser.back = 1 /\ browser.forward = 2 /\ browser.visible = 1

\* the rows of the file the call reads
RowsRead == read_csv(files, filepath)

\* the first column from index 1 on whose header names the weekday, the
\* column weekday_index + 1 of a header of 3 columns or more that names no
\* weekday, else the second column
NamedColumns ==
    { i \in 1..(Len(RowsRead[1]) - 1) :
        \E lbl \in WEEKDAY_HEADERS[weekday_index] :
            Lower(Strip(RowsRead[1][i + 1])) = Lower(lbl) }
ColumnOfWeekday ==
    IF NamedColumns # {}
    THEN CHOOSE i \in NamedColumns : \A j \in NamedColumns : i <= j
    ELSE IF Len(RowsRead[1]) >= 3 /\ weekday_index + 1 < Len(RowsRead[1])
    THEN weekday_index + 1
    ELSE 1

\* C22: load_reference_for_weekday returns the cells of the first column
\* (index >= 1) whose trimmed header is, whatever the case, a name of the
\* weekday; without such a header the column weekday_index + 1 of a header
\* of 3 or more columns, if present; otherwise the second column.  Empty
\* and non-numeric cells are 0.0, and the call raises nothing but the
\* ValueError of a missing file or a wrong dimension.
C22_ColumnOfWeekday ==
    Done("load_reference_for_weekday") =>
        IF Returned
        THEN ret.value = ColumnValues(RowsRead, ColumnOfWeekday)
        ELSE ret.status = "ValueError"

\* C23: for num_slots > 0 load_reference_for_weekday raises ValueError
\* whenever the file is missing or the selected column has another number
\* of data rows than num_slots, on the label path, the positional path and
\* the single-day path; whenever it returns, the list has num_slots values
\* and they are the cells of that column.
C23_DimensionMismatchRaises ==
    (Done("load_reference_for_weekday") /\ num_slots > 0) =>
        /\ RowsRead = <<>> => ret.status = "ValueError"
        /\ (/\ RowsRead # <<>>
            /\ Len(ColumnValues(RowsRead, ColumnOfWeekday)) # num_slots)
           => ret.status = "ValueError"
        /\ Returned =>
              /\ Len(ret.value) = num_slots
              /\ ret.value = ColumnValues(RowsRead, ColumnOfWeekday)

\* the data rows of the first value column of a file
DataRows(file) == Len(ColumnValues(file.rows, 1))

\* the default file of n rows as save_reference_day writes it
DefaultFile(n) == FileOf(<<<<"", "Mo">>>> \o [i \in 1..n |-> <<IndexStr(i), "1.00">>])

\* C24: after ensure_reference_file(path, n), n >= 1, the file at path
\* exists and its first value column has n data rows; a file that had n
\* data rows is unchanged and no backup is written; when an existing file
\* with another number of data rows is replaced, its previous content is at
\* the path with suffix .csv.bak and the new file has n rows of 1.00.
C24_EnsuredFile ==
    [][(op = "ensure_reference_file" /\ pc = "call" /\ pc' = "done") =>
           LET old == files[Resolve(filepath)]
               new == files'[Resolve(filepath)]
               backup == IF Resolve(filepath) = DefaultPath
                         THEN "data/default_reference.csv.bak" ELSE "ref.csv.bak"
           IN /\ new.exists /\ DataRows(new) = num_slots
              /\ (old.exists /\ DataRows(old) = num_slots) => files' = files
              /\ (old.exists /\ DataRows(old) # num_slots) =>
                    /\ files'[backup] = old
                    /\ new = DefaultFile(num_slots)]_vars

\* C25: when ensure_reference_file has to create a default file (file
\* missing or of wrong dimensions) for a path outside the package data
\* directory, it writes the new file into the package data directory,
\* returns that path and leaves the file at the original path untouched.
C25_RedirectToDataDir ==
    [][(/\ op = "ensure_reference_file" /\ pc = "call" /\ pc' = "done"
        /\ filepath = UserPath
        /\ ~files[UserPath].exists \/ DataRows(files[UserPath]) # num_slots) =>
           /\ ret'.value \in {<<DataDirUserPath>>, <<DefaultPath>>}
           /\ files'[ret'.value[1]] = DefaultFile(num_slots)
           /\ files'[UserPath] = files[UserPath]]_vars

\* C26: in the post-randomization step the coarse correction (diff / count
\* added to every perturbed value) is applied exactly when
\* abs(diff) / count is at least 10^-precision, diff being sum(original) -
\* sum(perturbed), and skipped only when abs(diff) / count is below it.
C26_CoarseCorrectionApplied ==
    (/\ op = "apply_fill_values" /\ fill_values # <<>>
     /\ post_randomization > 0 /\ post_randomization < 100) =>
        \A random_values \in { PerturbedValues(fill_values, post_randomization, k)
                               : k \in [DOMAIN fill_values -> USamples] } :
            LET diff == SeqSum(fill_values) - SeqSum(random_values)
                count == Len(random_values)
            IN CoarseCorrection(random_values, fill_values, precision)
               = IF Abs(diff) >= count * Unit(precision)
                 THEN [i \in DOMAIN random_values |-> random_values[i] + diff \div count]
                 ELSE random_values

\* a step of set_week that processes a date wrote field i of the date:
\* one more write, and the field holds the new value
FieldWritten(cell, i) ==
    /\ browser'.written[cell][i] = browser.written[cell][i] + 1
    /\ browser'.fields[cell][i] = run'.new_values[i]

FieldUntouched(cell, i) ==
    /\ browser'.written[cell][i] = browser.written[cell][i]
    /\ browser'.fields[cell][i] = browser.fields[cell][i]

\* the step of set_week that processes the next date to the end
DateProcessed ==
    /\ op = "set_week" /\ pc = "call" /\ run.dates # <<>>
    /\ run'.dates = Tail(run.dates)

\* the decimal distance of the new value of row i from the value read
Distance(i) == Abs(run'.new_values[i] - run.hours_data[Head(run.dates)][i])

\* C27 as stated: set_week writes field i of a processed day if and only if
\* abs(new_i - old_i) > 0.01 and the field is displayed and enabled; a
\* field whose new value is within 0.01 of the old one is not touched;
\* a written field holds the new value.
C27_WriteIffChanged ==
    [][DateProcessed =>
           \A i \in Rows :
               LET cell == <<browser.visible, Head(run.dates)>>
               IN IF Distance(i) > Cent /\ browser.usable[cell][i]
                  THEN FieldWritten(cell, i)
                  ELSE FieldUntouched(cell, i)]_vars

\* C27, amended: a displayed and enabled field is written when its new
\* value is more than 0.01 from the old one and not touched when it is less
\* than 0.01 from it; a field that is not displayed or not enabled is not
\* touched; for two values exactly 0.01 apart the float comparison of line
\* 234 decides, the field is written or it is not; a written field holds
\* the new value.
C27_WriteIfChangedFloat ==
    [][DateProcessed =>
           \A i \in Rows :
               LET cell == <<browser.visible, Head(run.dates)>>
               IN /\ FieldWritten(cell, i) \/ FieldUntouched(cell, i)
                  /\ (Distance(i) > Cent /\ browser.usable[cell][i]) => FieldWritten(cell, i)
                  /\ (Distance(i) < Cent \/ ~browser.usable[cell][i]) => FieldUntouched(cell, i)]_vars

\* set_week ended after one pass over a date in which a field was written
\* and a displayed and enabled field with the new value was left alone
C27_Witness ==
    /\ op = "set_week" /\ pc = "done" /\ ret = Ok(<<>>)
    /\ \E c \in Cells, i \in Rows, j \in Rows :
          /\ Passes(c) = 1 /\ browser.target[c[2]] > 0
          /\ weekdays = {} \/ c[2] \in weekdays
          /\ browser.written[c][i] = 1 /\ browser.fields[c][i] # browser.before[c][i]
          /\ browser.usable[c][j] /\ browser.written[c][j] = 0
          /\ browser.fields[c][j] > 0

\* the j-th position, from the left, that fill_day sees blank and not
\* excluded
EligibleAt(j) ==
    CHOOSE i \in Eligible : Cardinality({ k \in Eligible : k < i }) = j - 1

\* C28: the merge step of fill_day consumes the strategy's output
\* completely and in order: the fill list is as long as the number of
\* blank, non-excluded positions (slots), its j-th value is written to the
\* j-th such position, and neither the 'Not enough fill_values' ValueError
\* nor the 'Expected to fill' assertion leaves fill_day.
C28_MergeInOrder ==
    Done("fill_day") =>
        /\ ret.at \notin {"Not enough fill_values", "Expected to fill"}
        /\ Returned =>
              /\ Len(ret.rv) = Cardinality(Eligible)
              /\ \A j \in 1..Len(ret.rv) : ret.value[EligibleAt(j)] = ret.rv[j]

\* fill_day filled the second and the fourth cell of a day whose first and
\* third cell are excluded, with two different values
C28_Witness ==
    /\ Done("fill_day") /\ Returned
    /\ exclude_values = <<1, 0, 1, 0>> /\ Eligible = {2, 4}
    /\ Len(ret.rv) = 2 /\ ret.rv[1] # ret.rv[2]
    /\ ret.value[2] = ret.rv[1] /\ ret.value[4] = ret.rv[2]

C30_FieldsSumToTarget ==
    (op = "set_week" /\ pc = "done" /\ ret = Ok(<<>>) /\ exclude_indices = {}) =>
        \A c \in Cells :
            (/\ Passes(c) > 0 /\ browser.target[c[2]] > 0
             /\ weekdays = {} \/ c[2] \in weekdays
             /\ \A i \in Rows : browser.usable[c][i])
            => SeqSum(browser.fields[c]) = browser.target[c[2]]

====
